---- MODULE Spec2Model ----
(***************************************************************************)
(* A model of log_viewer.py: view_logs() reads logs/chatbot_logs.jsonl,    *)
(* prints a statistics report and exports the records as a CSV table.      *)
(*                                                                         *)
(* A JSON value is modelled by the part of it the program looks at.  Every *)
(* field of a record is a TLA+ record with a "kind" (the JSON type, or     *)
(* "absent" when the key is not in the object) and the payload the code    *)
(* reads.  An exception that leaves view_logs is the state pc = "raised",  *)
(* with the exception's type in raised.                                    *)
(***************************************************************************)
EXTENDS Integers, Sequences, FiniteSets, TLC

(***************************************************************************)
(* Bounds of the model: the longest file of each family of inputs.         *)
(***************************************************************************)
MaxLines == 4
MaxTyped == 2
MaxDated == 3
MaxMapped == 3
MaxRecent == 6
MaxExported == 2

(***************************************************************************)
(* Program constants.                                                      *)
(***************************************************************************)
RecentCount == 5
QuestionBudget == 100
ErrorQuestionBudget == 80

\* line 81: the seven data-source names of the availability report, in order
FileNames ==
  << "metadata_cache", "order_data", "asin_report", "brand_report",
     "gm_report", "underper_report", "brand_map" >>

\* a data-source name that is not one of the seven
OtherSource == "scratch_pad"

\* the keys a log object can carry: the eight known ones and an unknown one
FieldNames ==
  { "session_id", "timestamp", "error_occurred", "question_length",
    "response_length", "data_availability", "user_question", "ai_response",
    "model" }

(***************************************************************************)
(* JSON values, by field.                                                  *)
(***************************************************************************)
NoSession == [kind |-> "absent", id |-> 0]
Session(i) == [kind |-> "text", id |-> i]
ListSession == [kind |-> "list", id |-> 0]

NoTime == [kind |-> "absent", t |-> 0, aware |-> FALSE]
NullTime == [kind |-> "null", t |-> 0, aware |-> FALSE]
NumberTime == [kind |-> "number", t |-> 0, aware |-> FALSE]
EmptyTime == [kind |-> "empty", t |-> 0, aware |-> FALSE]
BadTime == [kind |-> "badtext", t |-> 0, aware |-> FALSE]
\* an ISO-8601 text: t is its wall-clock time in seconds, aware its UTC offset
IsoTime(t, aware) == [kind |-> "iso", t |-> t, aware |-> aware]

NoFlag == [kind |-> "absent", b |-> FALSE]
Flag(b) == [kind |-> "bool", b |-> b]

NoLength == [kind |-> "absent", n |-> 0]
Length(n) == [kind |-> "number", n |-> n]
TextLength == [kind |-> "text", n |-> 0]

NoMapping == [kind |-> "absent", available |-> {}, missing |-> {}]
NullMapping == [kind |-> "null", available |-> {}, missing |-> {}]
TextMapping == [kind |-> "text", available |-> {}, missing |-> {}]
\* a JSON object of booleans: the names mapped to true, the names mapped to false
Mapping(a, m) == [kind |-> "mapping", available |-> a, missing |-> m]

NoText == [kind |-> "absent", len |-> 0]
Text(n) == [kind |-> "text", len |-> n]
NumberText == [kind |-> "number", len |-> 0]

NoExtra == [kind |-> "absent"]
Extra == [kind |-> "text"]

\* a JSON object, by its fields
Obj(sid, ts, err, ql, rl, da, uq, ar, ex) ==
  [ json |-> "object", session_id |-> sid, timestamp |-> ts,
    error_occurred |-> err, question_length |-> ql, response_length |-> rl,
    data_availability |-> da, user_question |-> uq, ai_response |-> ar,
    model |-> ex ]

\* the line {} : an object with no key
EmptyObj ==
  Obj(NoSession, NoTime, NoFlag, NoLength, NoLength, NoMapping, NoText,
      NoText, NoExtra)

\* a line that is valid JSON but no object, such as 42
NumberValue == [EmptyObj EXCEPT !.json = "number"]

\* a record as the chatbot writes it
FullObj ==
  Obj(Session(1), IsoTime(70, FALSE), Flag(FALSE), Length(20), Length(90),
      Mapping({"order_data"}, {"brand_map"}), Text(20), Text(90), NoExtra)

(***************************************************************************)
(* Lines of the file.                                                      *)
(***************************************************************************)
BlankLine == [text |-> "blank", value |-> EmptyObj]
MalformedLine == [text |-> "malformed", value |-> EmptyObj]
JsonLine(v) == [text |-> "json", value |-> v]

(***************************************************************************)
(* Python values as the code tests them.                                   *)
(***************************************************************************)
\* bool(log.get('timestamp')): None, "" and a missing key are falsy
TimestampTruthy(ts) == ts.kind \in {"number", "badtext", "iso"}

\* bool(log.get('error_occurred', False))
FlagTruthy(e) == e.kind = "bool" /\ e.b

\* bool(log.get('data_availability')): None, {} and a missing key are falsy
MappingTruthy(da) ==
  \/ da.kind = "text"
  \/ da.kind = "mapping" /\ da.available \cup da.missing # {}

\* datetime.fromisoformat(ts) returns (TRUE) or raises ValueError/TypeError
ParsesAsIso(ts) == ts.kind = "iso"

\* strftime('%Y-%m-%d %H:%M'): the time cut to its minute
FormatMinute(t) == t \div 60

\* the integer nearest to num/den, a tie going to the even one, as the
\* float formatting of '.1f' rounds
RoundHalfEven(num, den) ==
  LET q == num \div den
      r == num % den
  IN  IF 2 * r < den THEN q
      ELSE IF 2 * r > den THEN q + 1
      ELSE IF q % 2 = 0 THEN q ELSE q + 1

\* f"{part / whole * 100:.1f}", in tenths of a percent
PercentTenths(part, whole) == RoundHalfEven(1000 * part, whole)

\* f"{total / n:.1f}", in tenths
MeanTenths(total, n) == RoundHalfEven(10 * total, n)

Min(S) == CHOOSE x \in S : \A y \in S : x <= y
Max(S) == CHOOSE x \in S : \A y \in S : x >= y

RECURSIVE SumOf(_, _)
\* sum(f(log) for log in logs) over numbers
SumOf(ns, i) == IF i > Len(ns) THEN 0 ELSE ns[i] + SumOf(ns, i + 1)

\* reversed(s)
Reversed(s) == [i \in 1..Len(s) |-> s[Len(s) + 1 - i]]

\* the keys of a JSON object
Keys(log) == {k \in FieldNames : log[k].kind # "absent"}

(***************************************************************************)
(* Lines 20-29: the loader.                                                *)
(***************************************************************************)
\* line 24: line.strip() is not empty
NonBlank(line) == line.text # "blank"

\* line 26: json.loads does not raise JSONDecodeError
Parses(line) == line.text = "json"

\* LoadLine with the append outside the try: a line that fails to parse
\* still adds an entry
LoadLineKeepsFailed(acc, line) ==
  IF NonBlank(line) THEN Append(acc, line.value) ELSE acc

\* lines 24-29: what one line adds to logs
LoadLine(acc, line) ==
  IF NonBlank(line) /\ Parses(line) THEN Append(acc, line.value) ELSE acc

(***************************************************************************)
(* Lines 42-49: basic statistics.                                          *)
(***************************************************************************)
\* line 43: log.get on a value that is no dict raises AttributeError, and a
\* list as session_id cannot go into a set (TypeError)
SessionRaises(log) == log.json # "object" \/ log.session_id.kind = "list"

\* line 43: the exception of the first record that raises, or "none"
BasicRaises(ls) ==
  IF \E i \in 1..Len(ls) : SessionRaises(ls[i])
  THEN LET i == Min({j \in 1..Len(ls) : SessionRaises(ls[j])})
       IN  IF ls[i].json # "object" THEN "AttributeError" ELSE "TypeError"
  ELSE "none"

\* line 43: a missing session_id is the one value None
UniqueSessions(ls) == Cardinality({ls[i].session_id : i \in 1..Len(ls)})

IsErrorLog(log) == FlagTruthy(log.error_occurred)

\* line 44
CountErrors(ls) == Len(SelectSeq(ls, IsErrorLog))

\* line 45, as line 49 prints it
ErrorRate(errs, total) == IF total > 0 THEN PercentTenths(errs, total) ELSE 0

(***************************************************************************)
(* Lines 52-59: the date range.                                            *)
(***************************************************************************)
NoDateLine == [kind |-> "none", lo |-> 0, hi |-> 0]
UnknownRange == [kind |-> "unknown", lo |-> 0, hi |-> 0]

HasTimestamp(log) == TimestampTruthy(log.timestamp)

\* line 52
Timestamps(ls) ==
  LET kept == SelectSeq(ls, HasTimestamp)
  IN  [i \in 1..Len(kept) |-> kept[i].timestamp]

\* line 56: min() and max() compare the datetimes; a naive one and an aware
\* one do not compare (TypeError)
Comparable(ts) == \A i, j \in 1..Len(ts) : ts[i].aware = ts[j].aware

\* lines 53-59: the date line printed, or none
DateRange(ls) ==
  LET ts == Timestamps(ls)
      times == {ts[i].t : i \in 1..Len(ts)}
  IN  IF Len(ts) = 0 THEN NoDateLine
      ELSE IF (\A i \in 1..Len(ts) : ParsesAsIso(ts[i])) /\ Comparable(ts)
      THEN [kind |-> "range", lo |-> FormatMinute(Min(times)),
            hi |-> FormatMinute(Max(times))]
      ELSE UnknownRange

(***************************************************************************)
(* Lines 62-65: the average lengths.                                       *)
(***************************************************************************)
\* log.get(field, 0)
LengthOr0(v) == IF v.kind = "absent" THEN 0 ELSE v.n

\* sum() raises TypeError on a value that is no number
SumRaises(ls, field) == \E i \in 1..Len(ls) : ls[i][field].kind = "text"

AverageLength(ls, field) ==
  LET ns == [i \in 1..Len(ls) |-> LengthOr0(ls[i][field])]
  IN  IF Len(ls) > 0 THEN MeanTenths(SumOf(ns, 1), Len(ls)) ELSE 0

(***************************************************************************)
(* Lines 72-87: the data-availability analysis.                            *)
(***************************************************************************)
\* lines 77, 79: the Counter's keys
AvailableKey(file_name) == file_name \o "_available"
MissingKey(file_name) == file_name \o "_missing"

\* line 75: .items() of a truthy value that is no dict raises AttributeError
ItemsRaises(log) ==
  MappingTruthy(log.data_availability) /\ log.data_availability.kind # "mapping"

\* the first record whose .items() raises, or 0
FirstItemsRaise(ls) ==
  IF \E i \in 1..Len(ls) : ItemsRaises(ls[i])
  THEN Min({i \in 1..Len(ls) : ItemsRaises(ls[i])})
  ELSE 0

\* CountedKeys without the test of line 76: every mention counts as available
CountedKeysAllAvailable(log) ==
  IF MappingTruthy(log.data_availability)
  THEN {AvailableKey(n) :
          n \in log.data_availability.available \cup log.data_availability.missing}
  ELSE {}

\* lines 75-79: the keys one record counts, once each
CountedKeys(log) ==
  IF MappingTruthy(log.data_availability)
  THEN {AvailableKey(n) : n \in log.data_availability.available}
       \cup {MissingKey(n) : n \in log.data_availability.missing}
  ELSE {}

\* Counter.get(key, 0)
GetCount(counts, key) == IF key \in DOMAIN counts THEN counts[key] ELSE 0

RECURSIVE CountAvailability(_, _, _)
\* lines 72-79: the Counter after records i.. of ls
CountAvailability(ls, i, counts) ==
  IF i > Len(ls) THEN counts
  ELSE LET keys == CountedKeys(ls[i])
       IN  CountAvailability(ls, i + 1,
             [k \in DOMAIN counts \cup keys |->
                GetCount(counts, k) + (IF k \in keys THEN 1 ELSE 0)])

\* the empty Counter
NoCounts == [k \in {} |-> 0]

RECURSIVE AvailabilityLines(_, _)
\* lines 81-87: the lines printed for the names from position i on
AvailabilityLines(counts, i) ==
  IF i > Len(FileNames) THEN << >>
  ELSE LET file_name == FileNames[i]
           available == GetCount(counts, AvailableKey(file_name))
           missing == GetCount(counts, MissingKey(file_name))
           total == available + missing
       IN  (IF total > 0
            THEN << [file_name |-> file_name, available |-> available,
                     total |-> total,
                     rate |-> PercentTenths(available, total)] >>
            ELSE << >>)
           \o AvailabilityLines(counts, i + 1)

(***************************************************************************)
(* Lines 94-111 and 119-129: the recent view and the error view.           *)
(***************************************************************************)
\* RecentLogs slicing from the wrong end: logs[:5]
RecentLogsFirst(ls) ==
  IF Len(ls) >= RecentCount THEN SubSeq(ls, 1, RecentCount) ELSE ls

\* line 94
RecentLogs(ls) ==
  IF Len(ls) >= RecentCount
  THEN SubSeq(ls, Len(ls) - RecentCount + 1, Len(ls))
  ELSE ls

\* ErrorLogs most recent first, as the recent view is
ErrorLogsReversed(ls) == Reversed(SelectSeq(ls, IsErrorLog))

\* line 119
ErrorLogs(ls) == SelectSeq(ls, IsErrorLog)

\* lines 96-101, 121-126: the time shown: the parsed time, or the raw text cut
\* to 19 characters, or 'Unknown'. A missing timestamp is the text 'Unknown',
\* which does not parse and is shown as it is.
FormattedTime(ts) ==
  IF ParsesAsIso(ts) THEN [kind |-> "formatted", t |-> ts.t]
  ELSE IF TimestampTruthy(ts) THEN [kind |-> "raw", t |-> 0]
  ELSE [kind |-> "unknown", t |-> 0]

\* line 101, 126: timestamp[:19] of a truthy value that is no text: TypeError
TimeRaises(ts) == ts.kind = "number"

\* log.get('user_question', 'No question'): the length of the text
TextLen(v, default) == IF v.kind = "absent" THEN default ELSE v.len

\* text[:budget] and the ellipsis
Shown(v, default, budget) ==
  LET n == TextLen(v, default)
  IN  [len |-> IF n > budget THEN budget ELSE n, ellipsis |-> n > budget]

NotShown == [len |-> 0, ellipsis |-> FALSE]

\* lines 108, 109, 129: slicing or len() of a value that is no text: TypeError
TextRaises(v) == v.kind = "number"

\* lines 96-111: what the loop prints for one record of the recent view, and
\* whether it raised doing so ('No question' and 'No response' are 11 chars)
RecentEntry(log) ==
  LET ts == log.timestamp
      q == log.user_question
      a == log.ai_response
      stop == IF TimeRaises(ts) THEN 0
              ELSE IF TextRaises(q) THEN 1
              ELSE IF TextRaises(a) THEN 2
              ELSE 3
  IN  [ log |-> log,
        time |-> IF stop >= 1 THEN FormattedTime(ts)
                 ELSE [kind |-> "unknown", t |-> 0],
        question |-> IF stop >= 2 THEN Shown(q, 11, QuestionBudget) ELSE NotShown,
        response |-> IF stop >= 3 THEN Shown(a, 11, QuestionBudget) ELSE NotShown,
        flagged |-> stop >= 3 /\ IsErrorLog(log),
        lines |-> stop,
        raised |-> stop < 3 ]

\* lines 120-129: the same for one record of the error view
ErrorEntry(log) ==
  LET ts == log.timestamp
      q == log.user_question
      stop == IF TimeRaises(ts) \/ TextRaises(q) THEN 0 ELSE 1
  IN  [ log |-> log,
        time |-> IF stop >= 1 THEN FormattedTime(ts)
                 ELSE [kind |-> "unknown", t |-> 0],
        question |-> IF stop >= 1 THEN Shown(q, 11, ErrorQuestionBudget)
                     ELSE NotShown,
        response |-> NotShown,
        flagged |-> FALSE,
        lines |-> stop,
        raised |-> stop < 1 ]

RECURSIVE PrintEntries(_, _)
\* a loop that prints entry after entry and stops at the first that raises
PrintEntries(entries, i) ==
  IF i > Len(entries) THEN << >>
  ELSE IF entries[i].raised THEN << entries[i] >>
  ELSE << entries[i] >> \o PrintEntries(entries, i + 1)

\* lines 95-111
RecentShown(view) ==
  PrintEntries([i \in 1..Len(view) |-> RecentEntry(Reversed(view)[i])], 1)

\* lines 120-129
ErrorShown(view) ==
  PrintEntries([i \in 1..Len(view) |-> ErrorEntry(view[i])], 1)

\* whether the loop ended by an exception
LoopRaised(shown) == Len(shown) > 0 /\ shown[Len(shown)].raised

(***************************************************************************)
(* Lines 137-158: the export.                                              *)
(***************************************************************************)
\* line 137: the columns of pd.DataFrame(logs) are the keys of the records
Columns(ls) == UNION {Keys(ls[i]) : i \in 1..Len(ls)}

\* line 138: a frame with no row or no column is empty
DfEmpty(ls) == Len(ls) = 0 \/ Columns(ls) = {}

\* the text of the empty mapping, '{}'
EmptyMappingText == [kind |-> "repr", available |-> {}, missing |-> {}]

\* lines 144-146: str(x) if x else '{}'. The cell of a record without the key
\* is NaN, which is truthy: its text is 'nan'.
AvailabilityCell(x) ==
  IF x.kind = "absent" THEN [kind |-> "nan", available |-> {}, missing |-> {}]
  ELSE IF ~MappingTruthy(x) THEN EmptyMappingText
  ELSE IF x.kind = "mapping"
  THEN [kind |-> "repr", available |-> x.available, missing |-> x.missing]
  ELSE [kind |-> "text", available |-> {}, missing |-> {}]

\* lines 140-146: one row of export_df; a value of kind "absent" is an empty cell
ExportRow(log, columns) ==
  [c \in columns |->
     IF c = "data_availability" THEN AvailabilityCell(log.data_availability)
     ELSE log[c]]

NoCsv == [written |-> FALSE, header |-> {}, rows |-> << >>]

\* lines 140-150: the file to_csv writes
ExportCsv(ls) ==
  [written |-> TRUE, header |-> Columns(ls),
   rows |-> [i \in 1..Len(ls) |-> ExportRow(ls[i], Columns(ls))]]

(***************************************************************************)
(* The inputs: the files view_logs is run on.                              *)
(***************************************************************************)
SeqsUpTo(S, n) == UNION {[1..k -> S] : k \in 0..n}

JsonLines(rs) == [i \in 1..Len(rs) |-> JsonLine(rs[i])]

\* files of blank, malformed and valid lines
LoaderLines ==
  { BlankLine, MalformedLine, JsonLine(FullObj), JsonLine(EmptyObj),
    JsonLine(NumberValue) }

\* records that leave one field out, or give it a value of another type
TypedRecords ==
  {FullObj, EmptyObj}
  \cup {[FullObj EXCEPT !.session_id = v] : v \in {NoSession, Session(2), ListSession}}
  \cup {[FullObj EXCEPT !.timestamp = v] :
          v \in {NoTime, NullTime, NumberTime, EmptyTime, BadTime, IsoTime(70, TRUE)}}
  \cup {[FullObj EXCEPT !.error_occurred = v] : v \in {NoFlag, Flag(TRUE)}}
  \cup {[FullObj EXCEPT !.question_length = v] : v \in {NoLength, TextLength}}
  \cup {[FullObj EXCEPT !.response_length = v] : v \in {NoLength, TextLength}}
  \cup {[FullObj EXCEPT !.data_availability = v] :
          v \in {NoMapping, NullMapping, TextMapping, Mapping({}, {})}}
  \cup {[FullObj EXCEPT !.user_question = v] : v \in {NoText, NumberText, Text(120)}}
  \cup {[FullObj EXCEPT !.ai_response = v] : v \in {NoText, NumberText, Text(120)}}
  \cup {[FullObj EXCEPT !.model = Extra]}

\* records that differ in their timestamp
DatedRecords ==
  {[FullObj EXCEPT !.timestamp = v] :
     v \in {NoTime, NullTime, NumberTime, EmptyTime, BadTime,
            IsoTime(45, FALSE), IsoTime(70, FALSE), IsoTime(130, FALSE),
            IsoTime(70, TRUE)}}

\* records that differ in their data_availability
MappedRecords ==
  {[FullObj EXCEPT !.data_availability = v] :
     v \in {NoMapping, NullMapping, TextMapping, Mapping({}, {}),
            Mapping({"order_data"}, {}), Mapping({}, {"order_data"}),
            Mapping({"order_data", OtherSource}, {}),
            Mapping({}, {OtherSource}),
            Mapping({"brand_map"}, {"order_data"})}}

\* records of long files: without an error, with one (two sessions), and with
\* one and a question that is a number
RecentRecords ==
  { FullObj,
    [FullObj EXCEPT !.error_occurred = Flag(TRUE), !.session_id = Session(2)],
    [FullObj EXCEPT !.error_occurred = Flag(TRUE), !.session_id = Session(3)],
    [FullObj EXCEPT !.error_occurred = Flag(TRUE), !.user_question = NumberText] }

\* records with few keys
ExportedRecords ==
  { EmptyObj,
    [EmptyObj EXCEPT !.session_id = Session(1)],
    [EmptyObj EXCEPT !.model = Extra],
    [EmptyObj EXCEPT !.data_availability = Mapping({"order_data"}, {})],
    [EmptyObj EXCEPT !.data_availability = Mapping({}, {}), !.session_id = Session(1)],
    [EmptyObj EXCEPT !.data_availability = NullMapping] }

Files ==
  SeqsUpTo(LoaderLines, MaxLines)
  \cup {JsonLines(rs) : rs \in SeqsUpTo(TypedRecords, MaxTyped)}
  \cup {JsonLines(rs) : rs \in SeqsUpTo(DatedRecords, MaxDated)}
  \cup {JsonLines(rs) : rs \in SeqsUpTo(MappedRecords, MaxMapped)}
  \cup {JsonLines(rs) : rs \in SeqsUpTo(RecentRecords, MaxRecent)}
  \cup {JsonLines(rs) : rs \in SeqsUpTo(ExportedRecords, MaxExported)}

(***************************************************************************)
(* The state of one run of view_logs.                                      *)
(***************************************************************************)
VARIABLES
  fileExists,            \* os.path.exists(log_file_path)
  file,                  \* the lines of the file
  pc,                    \* where view_logs is
  cursor,                \* the line the loop of line 23 reads next
  logs,
  printed,               \* the blocks and groups of lines printed so far
  raised,                \* the exception that left view_logs, or "none"
  total_conversations, unique_sessions, errors, error_rate,
  date_range,
  avg_question_length, avg_response_length,
  data_availability_counts,
  availability,          \* the lines of the availability report
  recent_logs, recent_shown,
  error_logs, error_shown,
  csv                    \* the exported file

inputVars == << fileExists, file >>
basicVars == << total_conversations, unique_sessions, errors, error_rate >>
averageVars == << avg_question_length, avg_response_length >>
availabilityVars == << data_availability_counts, availability >>
viewVars == << recent_logs, recent_shown, error_logs, error_shown >>
vars ==
  << inputVars, pc, cursor, logs, printed, raised, basicVars, date_range,
     averageVars, availabilityVars, viewVars, csv >>

Init ==
  /\ fileExists \in BOOLEAN
  /\ file \in Files
  /\ (~fileExists => file = << >>)
  /\ pc = "start"
  /\ cursor = 1
  /\ logs = << >>
  /\ printed = << >>
  /\ raised = "none"
  /\ total_conversations = 0
  /\ unique_sessions = 0
  /\ errors = 0
  /\ error_rate = 0
  /\ date_range = NoDateLine
  /\ avg_question_length = 0
  /\ avg_response_length = 0
  /\ data_availability_counts = NoCounts
  /\ availability = << >>
  /\ recent_logs = << >>
  /\ recent_shown = << >>
  /\ error_logs = << >>
  /\ error_shown = << >>
  /\ csv = NoCsv

\* an exception leaves view_logs
Raise(exception) == pc' = "raised" /\ raised' = exception

\* lines 16-18
CheckFile ==
  /\ pc = "start"
  /\ IF fileExists
     THEN pc' = "read" /\ printed' = printed
     ELSE pc' = "done" /\ printed' = Append(printed, "no_log_file")
  /\ UNCHANGED << inputVars, cursor, logs, raised, basicVars, date_range,
                  averageVars, availabilityVars, viewVars, csv >>

\* lines 23-29: one turn of the loop
ReadLine ==
  /\ pc = "read"
  /\ cursor <= Len(file)
  /\ logs' = LoadLine(logs, file[cursor])
  /\ cursor' = cursor + 1
  /\ UNCHANGED << inputVars, pc, printed, raised, basicVars, date_range,
                  averageVars, availabilityVars, viewVars, csv >>

\* CheckLogs without the return of line 33: the report goes on after the message
CheckLogsFallsThrough ==
  /\ pc = "read"
  /\ cursor > Len(file)
  /\ pc' = "basic"
  /\ printed' = Append(printed, IF Len(logs) = 0 THEN "no_valid_entries"
                                ELSE "found")
  /\ UNCHANGED << inputVars, cursor, logs, raised, basicVars, date_range,
                  averageVars, availabilityVars, viewVars, csv >>

\* lines 31-35: the end of the file
CheckLogs ==
  /\ pc = "read"
  /\ cursor > Len(file)
  /\ IF Len(logs) = 0
     THEN pc' = "done" /\ printed' = Append(printed, "no_valid_entries")
     ELSE pc' = "basic" /\ printed' = Append(printed, "found")
  /\ UNCHANGED << inputVars, cursor, logs, raised, basicVars, date_range,
                  averageVars, availabilityVars, viewVars, csv >>

\* lines 38-49
BasicStatistics ==
  /\ pc = "basic"
  /\ IF BasicRaises(logs) # "none"
     THEN /\ Raise(BasicRaises(logs))
          /\ printed' = Append(printed, "basic_statistics")
          /\ UNCHANGED basicVars
     ELSE /\ pc' = "dates"
          /\ raised' = raised
          /\ printed' = printed \o << "basic_statistics", "counts" >>
          /\ total_conversations' = Len(logs)
          /\ unique_sessions' = UniqueSessions(logs)
          /\ errors' = CountErrors(logs)
          /\ error_rate' = ErrorRate(CountErrors(logs), Len(logs))
  /\ UNCHANGED << inputVars, cursor, logs, date_range, averageVars,
                  availabilityVars, viewVars, csv >>

\* lines 52-59
DateRangeStep ==
  /\ pc = "dates"
  /\ date_range' = DateRange(logs)
  /\ printed' = IF DateRange(logs) = NoDateLine THEN printed
                ELSE Append(printed, "date_range")
  /\ pc' = "averages"
  /\ UNCHANGED << inputVars, cursor, logs, raised, basicVars, averageVars,
                  availabilityVars, viewVars, csv >>

\* lines 62-65
AverageLengths ==
  /\ pc = "averages"
  /\ IF SumRaises(logs, "question_length") \/ SumRaises(logs, "response_length")
     THEN /\ Raise("TypeError")
          /\ UNCHANGED << printed, averageVars >>
     ELSE /\ pc' = "availability"
          /\ raised' = raised
          /\ avg_question_length' = AverageLength(logs, "question_length")
          /\ avg_response_length' = AverageLength(logs, "response_length")
          /\ printed' = Append(printed, "averages")
  /\ UNCHANGED << inputVars, cursor, logs, basicVars, date_range,
                  availabilityVars, viewVars, csv >>

\* lines 68-87
DataAvailability ==
  /\ pc = "availability"
  /\ printed' = Append(printed, "data_availability")
  /\ IF FirstItemsRaise(logs) > 0
     THEN /\ Raise("AttributeError")
          /\ data_availability_counts' =
               CountAvailability(SubSeq(logs, 1, FirstItemsRaise(logs) - 1), 1,
                                 NoCounts)
          /\ availability' = availability
     ELSE /\ pc' = "recent"
          /\ raised' = raised
          /\ data_availability_counts' = CountAvailability(logs, 1, NoCounts)
          /\ availability' =
               AvailabilityLines(CountAvailability(logs, 1, NoCounts), 1)
  /\ UNCHANGED << inputVars, cursor, logs, basicVars, date_range, averageVars,
                  viewVars, csv >>

\* lines 90-111
RecentConversations ==
  /\ pc = "recent"
  /\ printed' = Append(printed, "recent_conversations")
  /\ recent_logs' = RecentLogs(logs)
  /\ recent_shown' = RecentShown(RecentLogs(logs))
  /\ IF LoopRaised(RecentShown(RecentLogs(logs)))
     THEN Raise("TypeError")
     ELSE pc' = "errors" /\ raised' = raised
  /\ UNCHANGED << inputVars, cursor, logs, basicVars, date_range, averageVars,
                  availabilityVars, error_logs, error_shown, csv >>

\* lines 114-129
ErrorAnalysis ==
  /\ pc = "errors"
  /\ IF errors > 0
     THEN /\ printed' = Append(printed, "error_analysis")
          /\ error_logs' = ErrorLogs(logs)
          /\ error_shown' = ErrorShown(ErrorLogs(logs))
          /\ IF LoopRaised(ErrorShown(ErrorLogs(logs)))
             THEN Raise("TypeError")
             ELSE pc' = "export" /\ raised' = raised
     ELSE /\ pc' = "export"
          /\ UNCHANGED << printed, raised, error_logs, error_shown >>
  /\ UNCHANGED << inputVars, cursor, logs, basicVars, date_range, averageVars,
                  availabilityVars, recent_logs, recent_shown, csv >>

\* lines 132-158
Export ==
  /\ pc = "export"
  /\ IF ~DfEmpty(logs)
     THEN /\ csv' = ExportCsv(logs)
          /\ printed' = printed \o << "export_options", "exported" >>
     ELSE /\ csv' = csv
          /\ printed' = printed \o << "export_options", "no_data" >>
  /\ pc' = "done"
  /\ UNCHANGED << inputVars, cursor, logs, raised, basicVars, date_range,
                  averageVars, availabilityVars, viewVars >>

Next ==
  \/ CheckFile
  \/ ReadLine
  \/ CheckLogs
  \/ BasicStatistics
  \/ DateRangeStep
  \/ AverageLengths
  \/ DataAvailability
  \/ RecentConversations
  \/ ErrorAnalysis
  \/ Export

Spec == Init /\ [][Next]_vars

(***************************************************************************)
(* Properties.                                                             *)
(***************************************************************************)
Printed(tag) == \E i \in 1..Len(printed) : printed[i] = tag

\* a record's error_occurred is true
FlagIsTrue(log) == log.error_occurred = Flag(TRUE)

Least(a, b) == IF a <= b THEN a ELSE b

\* C1: for every non-empty sequence of loaded records view_logs runs to the
\* end of the report without raising, whatever the records contain.
C1_NeverRaises == Len(logs) > 0 => pc # "raised"

\* the date step (lines 52-59) has run
DateStepDone == Printed("counts") /\ pc # "dates"

\* the timestamps that are in their records, as the claim counts them
PresentTimestamps ==
  {logs[i].timestamp : i \in {j \in 1..Len(logs) : logs[j].timestamp.kind # "absent"}}

\* C2: the date range is reported as unknown when no record has a timestamp
\* or when a present timestamp fails to parse, and otherwise as the minimum
\* and the maximum of the parsed timestamps (to the minute).
C2_DateRange ==
  DateStepDone =>
    IF PresentTimestamps = {} \/ \E ts \in PresentTimestamps : ts.kind # "iso"
    THEN date_range = UnknownRange
    ELSE /\ date_range.kind = "range"
         /\ date_range.lo = Min({ts.t : ts \in PresentTimestamps}) \div 60
         /\ date_range.hi = Max({ts.t : ts \in PresentTimestamps}) \div 60

\* C3: in the exported table the data_availability cell of a row is the text
\* of the record's mapping when the record has a non-empty mapping, and '{}'
\* for every record whose data_availability is absent or falsy.
C3_AvailabilityCells ==
  (csv.written /\ "data_availability" \in csv.header) =>
    \A i \in 1..Len(logs) :
      LET x == logs[i].data_availability
          cell == csv.rows[i]["data_availability"]
      IN  IF x.kind = "mapping" /\ x.available \cup x.missing # {}
          THEN cell = [kind |-> "repr", available |-> x.available,
                       missing |-> x.missing]
          ELSE cell = [kind |-> "repr", available |-> {}, missing |-> {}]

\* the error-analysis step (lines 114-129) has run
ErrorStepDone ==
  \/ pc \in {"export", "done"} /\ Printed("recent_conversations")
  \/ pc = "raised" /\ Printed("error_analysis")

\* C4: the error view holds exactly the records whose error_occurred is true,
\* in file order; its length is the errors count of the basic statistics; the
\* error-analysis block is printed if and only if errors > 0; and the loop
\* lists the view's records in that order.
C4_ErrorView ==
  ErrorStepDone =>
    /\ errors = Cardinality({i \in 1..Len(logs) : FlagIsTrue(logs[i])})
    /\ error_logs = SelectSeq(logs, FlagIsTrue)
    /\ Len(error_logs) = errors
    /\ Printed("error_analysis") <=> errors > 0
    /\ Len(error_shown) <= Len(error_logs)
    /\ \A i \in 1..Len(error_shown) : error_shown[i].log = error_logs[i]
    /\ pc # "raised" => Len(error_shown) = Len(error_logs)

\* C4 happens: a finished run with two different error records among others
C4_Witness ==
  /\ pc = "done"
  /\ errors = 2
  /\ Len(logs) = 4
  /\ Len(error_shown) = 2
  /\ error_logs[1] # error_logs[2]
  /\ ~FlagIsTrue(logs[1]) /\ ~FlagIsTrue(logs[3])

\* the recent-conversations step (lines 90-111) has run
RecentStepDone == Printed("recent_conversations")

\* C5: the recent view has min(5, total) entries and its i-th entry is the
\* i-th record counted from the end of the file.
C5_RecentView ==
  RecentStepDone =>
    /\ Len(recent_logs) = Least(5, Len(logs))
    /\ Len(recent_shown) <= Len(recent_logs)
    /\ \A i \in 1..Len(recent_shown) :
         recent_shown[i].log = logs[Len(logs) + 1 - i]
    /\ pc # "raised" => Len(recent_shown) = Least(5, Len(logs))

\* C5 happens: a finished run on six records, the first of them left out
C5_Witness ==
  /\ pc = "done"
  /\ Len(logs) = 6
  /\ Len(recent_shown) = 5
  /\ logs[1] # logs[6]
  /\ logs[2] # logs[1]
  /\ logs[5] # logs[6]

\* the availability step (lines 72-87) has run to its end
AvailabilityStepDone ==
  /\ Printed("data_availability")
  /\ ~(pc = "raised" /\ printed[Len(printed)] = "data_availability")

\* the records whose mapping gives the source the value b
Marking(name, b) ==
  {i \in 1..Len(logs) :
     /\ logs[i].data_availability.kind = "mapping"
     /\ name \in (IF b THEN logs[i].data_availability.available
                  ELSE logs[i].data_availability.missing)}

LinesOf(name) == {i \in 1..Len(availability) : availability[i].file_name = name}

\* C6: a fixed source with a records marking it available and m marking it
\* missing has no line when a + m = 0 and otherwise one line a/(a+m) with the
\* rate a/(a+m)*100 (to a tenth); other sources have no line and change no
\* count.
C6_AvailabilityReport ==
  AvailabilityStepDone =>
    /\ \A k \in 1..Len(FileNames) :
         LET a == Cardinality(Marking(FileNames[k], TRUE))
             m == Cardinality(Marking(FileNames[k], FALSE))
             at == LinesOf(FileNames[k])
         IN  IF a + m = 0 THEN at = {}
             ELSE /\ Cardinality(at) = 1
                  /\ \A i \in at :
                       /\ availability[i].available = a
                       /\ availability[i].total = a + m
                       /\ 2 * availability[i].rate * (a + m) <= 2000 * a + (a + m)
                       /\ 2 * availability[i].rate * (a + m) >= 2000 * a - (a + m)
    /\ \A i \in 1..Len(availability) :
         \E k \in 1..Len(FileNames) : availability[i].file_name = FileNames[k]

\* C6 happens: order_data is available in one record and missing in two, a
\* record names a source outside the seven, and brand_map has a line too
C6_Witness ==
  /\ pc = "done"
  /\ Len(availability) = 2
  /\ \E i \in 1..Len(availability) :
       /\ availability[i].file_name = "order_data"
       /\ availability[i].available = 1
       /\ availability[i].total = 3
       /\ availability[i].rate = 333
  /\ \E i \in 1..Len(logs) : OtherSource \in logs[i].data_availability.available

\* the values of the parseable non-blank lines of a part of the file, in order
ParseableOf(lines) ==
  LET kept == SelectSeq(lines, LAMBDA l : l.text = "json")
  IN  [i \in 1..Len(kept) |-> kept[i].value]

\* C7: the loader yields exactly the parseable non-blank lines, in file order;
\* blank and malformed lines are skipped and do not stop the run.
C7_Loader ==
  /\ logs = ParseableOf(SubSeq(file, 1, cursor - 1))
  /\ pc \notin {"start", "read"} /\ fileExists => cursor = Len(file) + 1
  /\ pc = "raised" => Printed("found")

\* C7 happens: three valid lines and a malformed one give three records
C7_Witness ==
  /\ pc = "done"
  /\ Len(file) = 4
  /\ \E i \in 1..3 : file[i].text = "malformed"
  /\ Len(logs) = 3
  /\ Printed("exported")

\* the file is absent or has no parseable line
NoRecords == ~fileExists \/ \A i \in 1..Len(file) : file[i].text # "json"

\* C8: when the file is absent or yields no valid record, view_logs returns
\* after one message: no block of the report, no export file, no exception.
C8_EarlyStop ==
  NoRecords =>
    /\ pc \in {"start", "read", "done"}
    /\ raised = "none"
    /\ ~csv.written
    /\ printed = IF pc # "done" THEN << >>
                 ELSE IF fileExists THEN << "no_valid_entries" >>
                 ELSE << "no_log_file" >>

\* C8 happens: a file of blank and malformed lines stops the run
C8_Witness ==
  /\ pc = "done"
  /\ fileExists
  /\ Len(file) = 2
  /\ file[1].text = "malformed"
  /\ file[2].text = "blank"
  /\ printed = << "no_valid_entries" >>

\* C9: whenever the loader yields a record, the export writes a table with one
\* row per record and a header that is the union of the records' keys (stated
\* for the runs that return).
C9_ExportTable ==
  (pc = "done" /\ Len(logs) > 0) =>
    /\ csv.written
    /\ Len(csv.rows) = Len(logs)
    /\ csv.header = UNION {Keys(logs[i]) : i \in 1..Len(logs)}

\* C10: the "no data to export" branch is never taken.
C10_SkipUnreachable == ~Printed("no_data")

====
